---- MODULE Spec2Model ----
(***************************************************************************)
(* The sensor-simulation and risk-assessment loop of the BusSafe dashboard *)
(* (src/App.tsx) with the classification call of src/geminiService.ts.    *)
(*                                                                         *)
(* Numbers: leftDistance, rightDistance in cm, vehicleSpeed in km/h,       *)
(* closingSpeed in tenths of m/s (0.5 m/s is 5, the clamp 15 m/s is 150),  *)
(* timer time in ms.  Math.random() * 40 - 20 lies in [-20, 20): the       *)
(* deltas below are its extreme integer outcomes.  Date.now() returns a    *)
(* later value for each result that is built.                              *)
(***************************************************************************)
EXTENDS Integers, Sequences, FiniteSets, TLC

\* ------------------------------------------------------------------ bounds
\* Spec: results returned plus calls outstanding.
MaxCalls == 2
\* SpecReply, SpecSim: results returned plus calls outstanding.
ReplyCalls == 2
SimCalls == 1
\* SpecHist: results returned plus calls outstanding, and calls outstanding at once.
HistCalls == 22
HistInflight == 2
\* SpecLive: calls outstanding at once.
LiveInflight == 2

\* ------------------------------------------------------- program constants
HistoryCap == 20
IntervalMs == 4000
DistanceMin == 10
DistanceMax == 300
ClosingSpeedMin == 0
ClosingSpeedMax == 150
VehicleSpeedMin == 0
VehicleSpeedMax == 100
SliderDistanceMin == 5
SliderDistanceMax == 300
SliderClosingMax == 250
SliderVehicleMax == 120

DrivingMode == {"Traffic", "Highway", "Depot"}
RiskLevel == {"LOW", "MEDIUM", "HIGH"}
FallbackExplanation == "Unable to generate assessment."

\* Math.random() * 40 - 20, Math.random() * 4 - 2 (in tenths), Math.random() * 15 - 7
DistanceDeltas == {-20, 19}
ClosingDeltas == {-20, 19}
VehicleDeltas == {-7, 7}
Deltas == DistanceDeltas \X DistanceDeltas \X ClosingDeltas \X VehicleDeltas

\* ------------------------------------------------------------------ helpers
Max(a, b) == IF a >= b THEN a ELSE b
Min(a, b) == IF a <= b THEN a ELSE b
Take(s, n) == SubSeq(s, 1, Min(n, Len(s)))
Remove(s, i) == SubSeq(s, 1, i - 1) \o SubSeq(s, i + 1, Len(s))

InitialSensorData ==
    [leftDistance |-> 120, rightDistance |-> 115, closingSpeed |-> 5,
     vehicleSpeed |-> 45, drivingMode |-> "Traffic"]

\* Perturb with the closing-speed clamp of the slider instead of the simulation's.
PerturbSliderClamp(prev, dL, dR, dC, dV) ==
    [prev EXCEPT
        !.leftDistance = Max(DistanceMin, Min(DistanceMax, prev.leftDistance + dL)),
        !.rightDistance = Max(DistanceMin, Min(DistanceMax, prev.rightDistance + dR)),
        !.closingSpeed = Max(ClosingSpeedMin, Min(SliderClosingMax, prev.closingSpeed + dC)),
        !.vehicleSpeed = Max(VehicleSpeedMin, Min(VehicleSpeedMax, prev.vehicleSpeed + dV))]

\* Perturb without Math.max and Math.min: the random term is added as it is.
PerturbUnclamped(prev, dL, dR, dC, dV) ==
    [prev EXCEPT
        !.leftDistance = prev.leftDistance + dL,
        !.rightDistance = prev.rightDistance + dR,
        !.closingSpeed = prev.closingSpeed + dC,
        !.vehicleSpeed = prev.vehicleSpeed + dV]

\* The interval callback's newData (the updater of setSensorData).
Perturb(prev, dL, dR, dC, dV) ==
    [prev EXCEPT
        !.leftDistance = Max(DistanceMin, Min(DistanceMax, prev.leftDistance + dL)),
        !.rightDistance = Max(DistanceMin, Min(DistanceMax, prev.rightDistance + dR)),
        !.closingSpeed = Max(ClosingSpeedMin, Min(ClosingSpeedMax, prev.closingSpeed + dC)),
        !.vehicleSpeed = Max(VehicleSpeedMin, Min(VehicleSpeedMax, prev.vehicleSpeed + dV))]

\* What the sliders and the mode buttons can hand to updateSensor.
SliderInputs ==
    ({"leftDistance", "rightDistance"} \X {SliderDistanceMin, SliderDistanceMax})
    \cup ({"closingSpeed"} \X {0, SliderClosingMax})
    \cup ({"vehicleSpeed"} \X {0, SliderVehicleMax})
    \cup ({"drivingMode"} \X DrivingMode)

\* ------------------------------------------------- the classification call
\* A reply of ai.models.generateContent: the call throws (transportError), or
\* response.text is empty (emptyText), is no JSON (badText), or is the JSON
\* text of null, an array, a number, a string or an object.  Absent is a
\* missing field (undefined); "" is the empty string.
Absent == "<absent>"
RiskStrings == {Absent, "", "LOW", "MEDIUM", "HIGH", "CRITICAL"}
ExplanationStrings == {Absent, "", "clear"}
Reply(kind, rl, ex) == [kind |-> kind, riskLevel |-> rl, explanation |-> ex]
Responses ==
    {Reply(k, Absent, Absent) :
        k \in {"transportError", "emptyText", "badText", "null", "array", "number", "string"}}
    \cup {Reply("object", rl, ex) : rl \in RiskStrings, ex \in ExplanationStrings}

EmptyObject == Reply("object", Absent, Absent)

\* JSON.parse(response.text || "{}")
ParseThrows(resp) == resp.kind = "badText"
ResultJson(resp) == IF resp.kind = "emptyText" THEN EmptyObject ELSE resp

\* resultJson.<field>: a TypeError on null, undefined on a value without it.
PropertyThrows(json) == json.kind = "null"
Property(json, f) == IF json.kind = "object" THEN json[f] ELSE Absent
Truthy(v) == v \notin {Absent, ""}

NoResult ==
    [riskLevel |-> Absent, explanation |-> Absent, timestamp |-> 0, data |-> InitialSensorData]

\* assessSafetyRisk with one test for both fields: a reply missing either
\* field gets both defaults.
assessSafetyRiskJointDefault(data, resp, t) ==
    IF resp.kind = "transportError" \/ ParseThrows(resp) \/ PropertyThrows(ResultJson(resp))
    THEN [ok |-> FALSE, result |-> NoResult]
    ELSE LET both == /\ Truthy(Property(ResultJson(resp), "riskLevel"))
                     /\ Truthy(Property(ResultJson(resp), "explanation"))
         IN [ok |-> TRUE,
             result |->
               [riskLevel |-> IF both THEN Property(ResultJson(resp), "riskLevel") ELSE "LOW",
                explanation |-> IF both THEN Property(ResultJson(resp), "explanation")
                                ELSE FallbackExplanation,
                timestamp |-> t,
                data |-> data]]

assessSafetyRisk(data, resp, t) ==
    IF resp.kind = "transportError" \/ ParseThrows(resp) \/ PropertyThrows(ResultJson(resp))
    THEN [ok |-> FALSE, result |-> NoResult]
    ELSE [ok |-> TRUE,
          result |->
            [riskLevel |-> IF Truthy(Property(ResultJson(resp), "riskLevel"))
                           THEN Property(ResultJson(resp), "riskLevel") ELSE "LOW",
             explanation |-> IF Truthy(Property(ResultJson(resp), "explanation"))
                             THEN Property(ResultJson(resp), "explanation")
                             ELSE FallbackExplanation,
             timestamp |-> t,
             data |-> data]]

\* playAlertTone without the early return on a muted dashboard.
playAlertToneUngated(level, audio) ==
    IF level = "HIGH" THEN "HIGH"
    ELSE IF level = "MEDIUM" THEN "MEDIUM"
    ELSE "none"

\* playAlertTone as captured by the handleAssessment that issued the call:
\* the tone it starts, "none" when it returns early or starts no oscillator.
playAlertTone(level, audio) ==
    IF ~audio THEN "none"
    ELSE IF level = "HIGH" THEN "HIGH"
    ELSE IF level = "MEDIUM" THEN "MEDIUM"
    ELSE "none"

\* handleAssessment with a catch block that rethrows.
handleAssessmentRethrows(r) == IF r.ok THEN "resolved" ELSE "rejected"

\* How the promise of handleAssessment settles: catch logs, nothing is rethrown.
handleAssessmentSettles(r) == "resolved"

\* PushHistory that keeps the tail: [result, ...prev].slice(-20)
PushHistoryKeepTail(result, prev) ==
    LET all == <<result>> \o prev
    IN SubSeq(all, Max(1, Len(all) - HistoryCap + 1), Len(all))

\* setHistory(prev => [result, ...prev].slice(0, 20))
\* PushHistory that adds the result at the end: [...prev, result].slice(-20).
PushHistoryAppend(result, prev) ==
    LET all == prev \o <<result>> IN
    SubSeq(all, Max(1, Len(all) - HistoryCap + 1), Len(all))

PushHistory(result, prev) == Take(<<result>> \o prev, HistoryCap)

\* NextAssessment with a catch block that calls setAssessment(null).
NextAssessmentCleared(r, prev) == IF r.ok THEN <<r.result>> ELSE <<>>

\* NextAssessment that keeps the first result: a later one is dropped.
NextAssessmentKeepFirst(r, prev) == IF r.ok /\ prev = <<>> THEN <<r.result>> ELSE prev

\* The state handleAssessment leaves after the call returned r: the try block
\* sets both on a result, the catch block touches neither.  The current
\* assessment is <<>> for null, <<result>> otherwise.
NextAssessment(r, prev) == IF r.ok THEN <<r.result>> ELSE prev

\* NextHistory without the setHistory call.
NextHistoryForgotten(r, prev) == prev

NextHistory(r, prev) == IF r.ok THEN PushHistory(r.result, prev) ELSE prev

\* finally without its effect on a failure: only the try block clears the flag.
NextAnalyzingOnSuccess(r, prev) == IF r.ok THEN FALSE ELSE prev

\* finally { setIsAnalyzing(false) }
NextAnalyzing(r, prev) == FALSE

\* if (result.riskLevel !== RiskLevel.LOW) playAlertTone(result.riskLevel)
AlertCalled(r) == r.ok /\ r.result.riskLevel # "LOW"

\* ------------------------------------------------------------------- state
VARIABLES
    mounted,        \* the mount effect has run
    sensorData, assessment, history, isAnalyzing, autoSimulate, audioEnabled,
    inflight,       \* outstanding assessSafetyRisk calls, in issue order
    intervalArmed,  \* a setInterval timer exists
    elapsed,        \* ms since the timer was set or last fired
    now,            \* the last value Date.now() returned
    lastEvent,      \* observation of the last step taken
    completed       \* every result ever returned, newest first

vars == <<mounted, sensorData, assessment, history, isAnalyzing, autoSimulate,
          audioEnabled, inflight, intervalArmed, elapsed, now, lastEvent, completed>>

NoReply == Reply("none", Absent, Absent)
Event(kind) ==
    [kind |-> kind, origin |-> "none", resp |-> NoReply, ok |-> FALSE,
     settled |-> "none", logged |-> FALSE, alertCalled |-> FALSE, tone |-> "none",
     audio |-> FALSE, data |-> InitialSensorData]

Init ==
    /\ mounted = FALSE
    /\ sensorData = InitialSensorData
    /\ assessment = <<>>
    /\ history = <<>>
    /\ isAnalyzing = FALSE
    /\ autoSimulate = FALSE
    /\ audioEnabled = FALSE
    /\ inflight = <<>>
    /\ intervalArmed = FALSE
    /\ elapsed = 0
    /\ now = 0
    /\ lastEvent = Event("init")
    /\ completed = <<>>

\* handleAssessment up to its await: setIsAnalyzing(true) and the call issued.
IssueCall(data, origin) ==
    /\ isAnalyzing' = TRUE
    /\ inflight' = Append(inflight, [data |-> data, audio |-> audioEnabled, origin |-> origin])

\* useEffect(() => { handleAssessment(sensorData) }, [])
Mount ==
    /\ ~mounted
    /\ mounted' = TRUE
    /\ IssueCall(sensorData, "initial")
    /\ lastEvent' = [Event("mount") EXCEPT !.origin = "initial", !.data = sensorData]
    /\ UNCHANGED <<sensorData, assessment, history, autoSimulate, audioEnabled,
                   intervalArmed, elapsed, now, completed>>

\* updateSensor that clamps a number to [0, 100] before storing it.
updateSensorClamped(key, value) ==
    /\ mounted
    /\ sensorData' = [sensorData EXCEPT
            ![key] = IF key = "drivingMode" THEN value ELSE Max(0, Min(VehicleSpeedMax, value))]
    /\ lastEvent' = Event("edit")
    /\ UNCHANGED <<mounted, assessment, history, isAnalyzing, autoSimulate, audioEnabled,
                   inflight, intervalArmed, elapsed, now, completed>>

\* updateSensor(key, value)
updateSensor(key, value) ==
    /\ mounted
    /\ sensorData' = [sensorData EXCEPT ![key] = value]
    /\ lastEvent' = Event("edit")
    /\ UNCHANGED <<mounted, assessment, history, isAnalyzing, autoSimulate, audioEnabled,
                   inflight, intervalArmed, elapsed, now, completed>>

\* The effect without its cleanup: an interval once set is never cleared.
RunIntervalEffectNoCleanup(auto) ==
    /\ intervalArmed' = (intervalArmed \/ auto)
    /\ elapsed' = IF auto THEN 0 ELSE elapsed

\* The auto-simulation effect, run after a render in which autoSimulate or
\* handleAssessment changed: the cleanup clears the old interval, then a new
\* one is set when autoSimulate is on.
RunIntervalEffect(auto) ==
    /\ intervalArmed' = auto
    /\ elapsed' = 0

\* onClick={() => setAudioEnabled(!audioEnabled)}: playAlertTone and with it
\* handleAssessment are recreated, so the auto-simulation effect runs again.
ToggleAudio ==
    /\ mounted
    /\ audioEnabled' = ~audioEnabled
    /\ RunIntervalEffect(autoSimulate)
    /\ lastEvent' = Event("toggleAudio")
    /\ UNCHANGED <<mounted, sensorData, assessment, history, isAnalyzing, autoSimulate,
                   inflight, now, completed>>

\* ToggleAuto whose cleanup also aborts the calls the ticks issued.
ToggleAutoCancels ==
    /\ mounted
    /\ autoSimulate' = ~autoSimulate
    /\ RunIntervalEffect(~autoSimulate)
    /\ inflight' = SelectSeq(inflight, LAMBDA c : c.origin # "tick")
    /\ lastEvent' = Event("toggleAuto")
    /\ UNCHANGED <<mounted, sensorData, assessment, history, isAnalyzing, audioEnabled,
                   now, completed>>

\* onClick={() => setAutoSimulate(!autoSimulate)}
ToggleAuto ==
    /\ mounted
    /\ autoSimulate' = ~autoSimulate
    /\ RunIntervalEffect(~autoSimulate)
    /\ lastEvent' = Event("toggleAuto")
    /\ UNCHANGED <<mounted, sensorData, assessment, history, isAnalyzing, audioEnabled,
                   inflight, now, completed>>

\* Time passes on the pending interval, half a period at a time.
Quantum == IntervalMs \div 2

Elapse ==
    /\ intervalArmed
    /\ elapsed < IntervalMs
    /\ elapsed' = Min(IntervalMs, elapsed + Quantum)
    /\ lastEvent' = Event("elapse")
    /\ UNCHANGED <<mounted, sensorData, assessment, history, isAnalyzing, autoSimulate,
                   audioEnabled, inflight, intervalArmed, now, completed>>

\* Tick that is skipped while an assessment is outstanding.
TickWhenIdle(dL, dR, dC, dV) ==
    /\ mounted
    /\ intervalArmed
    /\ elapsed >= IntervalMs
    /\ ~isAnalyzing
    /\ LET newData == Perturb(sensorData, dL, dR, dC, dV) IN
        /\ sensorData' = newData
        /\ IssueCall(newData, "tick")
        /\ lastEvent' = [Event("tick") EXCEPT !.origin = "tick", !.data = newData]
    /\ elapsed' = 0
    /\ UNCHANGED <<mounted, assessment, history, autoSimulate, audioEnabled,
                   intervalArmed, now, completed>>

\* Tick that hands the reading of before the perturbation to handleAssessment.
TickStaleReading(dL, dR, dC, dV) ==
    /\ mounted
    /\ intervalArmed
    /\ elapsed >= IntervalMs
    /\ LET newData == Perturb(sensorData, dL, dR, dC, dV) IN
        /\ sensorData' = newData
        /\ IssueCall(sensorData, "tick")
        /\ lastEvent' = [Event("tick") EXCEPT !.origin = "tick", !.data = sensorData]
    /\ elapsed' = 0
    /\ UNCHANGED <<mounted, assessment, history, autoSimulate, audioEnabled,
                   intervalArmed, now, completed>>

\* The interval callback: setSensorData(prev => { ...; handleAssessment(newData); return newData })
Tick(dL, dR, dC, dV) ==
    /\ mounted
    /\ intervalArmed
    /\ elapsed >= IntervalMs
    /\ LET newData == Perturb(sensorData, dL, dR, dC, dV) IN
        /\ sensorData' = newData
        /\ IssueCall(newData, "tick")
        /\ lastEvent' = [Event("tick") EXCEPT !.origin = "tick", !.data = newData]
    /\ elapsed' = 0
    /\ UNCHANGED <<mounted, assessment, history, autoSimulate, audioEnabled,
                   intervalArmed, now, completed>>

\* ManualTrigger on a button that is also disabled while auto-sync is on.
ManualTriggerIdleOnly ==
    /\ mounted
    /\ ~isAnalyzing
    /\ ~autoSimulate
    /\ IssueCall(sensorData, "manual")
    /\ lastEvent' = [Event("manual") EXCEPT !.origin = "manual", !.data = sensorData]
    /\ UNCHANGED <<mounted, sensorData, assessment, history, autoSimulate, audioEnabled,
                   intervalArmed, elapsed, now, completed>>

\* The Refresh Analysis button: onClick={() => handleAssessment(sensorData)}, disabled={isAnalyzing}
ManualTrigger ==
    /\ mounted
    /\ ~isAnalyzing
    /\ IssueCall(sensorData, "manual")
    /\ lastEvent' = [Event("manual") EXCEPT !.origin = "manual", !.data = sensorData]
    /\ UNCHANGED <<mounted, sensorData, assessment, history, autoSimulate, audioEnabled,
                   intervalArmed, elapsed, now, completed>>

\* Complete that builds the result from the reading held when the reply arrives.
CompleteHeldReading(i, resp, t) ==
    /\ i \in 1..Len(inflight)
    /\ t >= now
    /\ LET call == inflight[i]
           r == assessSafetyRisk(sensorData, resp, t)
           alert == AlertCalled(r)
       IN
        /\ inflight' = Remove(inflight, i)
        /\ assessment' = NextAssessment(r, assessment)
        /\ history' = NextHistory(r, history)
        /\ completed' = IF r.ok THEN <<r.result>> \o completed ELSE completed
        /\ now' = IF r.ok THEN t ELSE now
        /\ isAnalyzing' = NextAnalyzing(r, isAnalyzing)
        /\ lastEvent' =
            [Event("complete") EXCEPT
                !.origin = call.origin, !.resp = resp, !.ok = r.ok,
                !.settled = handleAssessmentSettles(r), !.logged = ~r.ok,
                !.alertCalled = alert,
                !.tone = IF alert THEN playAlertTone(r.result.riskLevel, call.audio) ELSE "none",
                !.audio = call.audio, !.data = call.data]
    /\ UNCHANGED <<mounted, sensorData, autoSimulate, audioEnabled, intervalArmed,
                   elapsed>>

\* The rest of handleAssessment, run when the i-th outstanding call gets the
\* reply resp; t is what Date.now() returns if the result is built.
Complete(i, resp, t) ==
    /\ i \in 1..Len(inflight)
    /\ t >= now
    /\ LET call == inflight[i]
           r == assessSafetyRisk(call.data, resp, t)
           alert == AlertCalled(r)
       IN
        /\ inflight' = Remove(inflight, i)
        /\ assessment' = NextAssessment(r, assessment)
        /\ history' = NextHistory(r, history)
        /\ completed' = IF r.ok THEN <<r.result>> \o completed ELSE completed
        /\ now' = IF r.ok THEN t ELSE now
        /\ isAnalyzing' = NextAnalyzing(r, isAnalyzing)
        /\ lastEvent' =
            [Event("complete") EXCEPT
                !.origin = call.origin, !.resp = resp, !.ok = r.ok,
                !.settled = handleAssessmentSettles(r), !.logged = ~r.ok,
                !.alertCalled = alert,
                !.tone = IF alert THEN playAlertTone(r.result.riskLevel, call.audio) ELSE "none",
                !.audio = call.audio, !.data = call.data]
    /\ UNCHANGED <<mounted, sensorData, autoSimulate, audioEnabled, intervalArmed,
                   elapsed>>

\* ------------------------------------------------------------ specifications
\* Spec: the orchestrator and the driver together, on a few representative
\* replies, perturbations and slider inputs.
SpecReplies ==
    {Reply("transportError", Absent, Absent), Reply("badText", Absent, Absent),
     Reply("object", "LOW", "clear"), Reply("object", "HIGH", "clear")}
\* Math.random() in the middle of its range: a reading within the simulation
\* bounds stays, an edited closing speed of 25 is clamped to 15.
SpecDeltas == {<<0, 0, 0, 0>>}
SpecInputs == {<<"closingSpeed", SliderClosingMax>>}

\* Calls the model has issued and still remembers.
Issued == Len(completed) + Len(inflight)

Next ==
    \/ Mount
    \/ \E kv \in SpecInputs : updateSensor(kv[1], kv[2])
    \/ ToggleAudio
    \/ ToggleAuto
    \/ Elapse
    \/ \E d \in SpecDeltas : Issued < MaxCalls /\ Tick(d[1], d[2], d[3], d[4])
    \/ Issued < MaxCalls /\ ManualTrigger
    \/ \E i \in 1..Len(inflight), resp \in SpecReplies : Complete(i, resp, now + 1)

Spec == Init /\ [][Next]_vars

\* SpecReply: every reply of the classification engine, on calls issued one
\* after the other, with the audio setting toggled in between.
NextReply ==
    \/ Mount
    \/ ToggleAudio
    \/ Issued < ReplyCalls /\ ManualTrigger
    \/ \E i \in 1..Len(inflight), resp \in Responses : Complete(i, resp, now + 1)

SpecReply == Init /\ [][NextReply]_vars

\* SpecSim: the tick on every reading the sliders can leave behind.  The
\* initial call has failed, the operator has moved the sliders, auto-sync is
\* on and a period has passed.
SimReadings ==
    [leftDistance : {SliderDistanceMin, 120, SliderDistanceMax},
     rightDistance : {SliderDistanceMin, 115, SliderDistanceMax},
     closingSpeed : {0, 5, SliderClosingMax},
     vehicleSpeed : {0, 45, SliderVehicleMax},
     drivingMode : DrivingMode]

InitSim ==
    /\ mounted = TRUE
    /\ sensorData \in SimReadings
    /\ assessment = <<>>
    /\ history = <<>>
    /\ isAnalyzing = FALSE
    /\ autoSimulate = TRUE
    /\ audioEnabled = FALSE
    /\ inflight = <<>>
    /\ intervalArmed = TRUE
    /\ elapsed = IntervalMs
    /\ now = 0
    /\ lastEvent = Event("elapse")
    /\ completed = <<>>

NextSim ==
    \/ Elapse
    \/ \E d \in Deltas : Issued < SimCalls /\ Tick(d[1], d[2], d[3], d[4])
    \/ \E i \in 1..Len(inflight) : Complete(i, Reply("object", "LOW", "clear"), now + 1)

SpecSim == InitSim /\ [][NextSim]_vars

\* SpecEdit: every slider and mode button, while the initial call is
\* outstanding or has returned, with the driver Idle or Running.
EditReplies == {Reply("transportError", Absent, Absent), Reply("object", "MEDIUM", "clear")}

NextEdit ==
    \/ Mount
    \/ \E kv \in SliderInputs : updateSensor(kv[1], kv[2])
    \/ ToggleAuto
    \/ Elapse
    \/ \E i \in 1..Len(inflight), resp \in EditReplies : Complete(i, resp, now + 1)

SpecEdit == Init /\ [][NextEdit]_vars

\* SpecRange: edits to the slider extremes that lie outside the simulation's
\* bounds, interleaved with ticks whose random terms are all lowest or all
\* highest.
RangeCalls == 2
RangeInputs ==
    {<<"leftDistance", SliderDistanceMin>>, <<"closingSpeed", SliderClosingMax>>,
     <<"vehicleSpeed", SliderVehicleMax>>, <<"drivingMode", "Highway">>}
RangeDeltas == {<<-20, -20, -20, -7>>, <<19, 19, 19, 7>>}

NextRange ==
    \/ Mount
    \/ \E kv \in RangeInputs : updateSensor(kv[1], kv[2])
    \/ ToggleAuto
    \/ Elapse
    \/ \E d \in RangeDeltas : Issued < RangeCalls /\ Tick(d[1], d[2], d[3], d[4])
    \/ \E i \in 1..Len(inflight) : Complete(i, Reply("object", "LOW", "clear"), now + 1)

SpecRange == Init /\ [][NextRange]_vars

\* SpecHist: a long run of assessments, at most HistInflight at once, that
\* succeed or fail, with ticks and manual triggers and the driver toggled.
HistReplies == {Reply("transportError", Absent, Absent), Reply("object", "LOW", "clear")}

NextHist ==
    \/ Mount
    \/ ToggleAuto
    \/ Elapse
    \/ Issued < HistCalls /\ Len(inflight) < HistInflight /\ Tick(0, 0, 0, 0)
    \/ Issued < HistCalls /\ ManualTrigger
    \/ \E i \in 1..Len(inflight), resp \in HistReplies : Complete(i, resp, now + 1)

SpecHist == Init /\ [][NextHist]_vars

\* SpecLive: the driver over unbounded time, with the engine unreachable.  At
\* most LiveInflight calls are outstanding in the model, so replies are fair:
\* the cap never holds a tick back for good.  Time passes and a due interval
\* fires.
FailedReply == Reply("transportError", Absent, Absent)
TickLive == Len(inflight) < LiveInflight /\ Tick(0, 0, 0, 0)
ManualLive == Len(inflight) < LiveInflight /\ ManualTrigger
CompleteLive == \E i \in 1..Len(inflight) : Complete(i, FailedReply, now + 1)

NextLive ==
    \/ Mount
    \/ ToggleAudio
    \/ ToggleAuto
    \/ Elapse
    \/ TickLive
    \/ ManualLive
    \/ CompleteLive

SpecLive ==
    /\ Init /\ [][NextLive]_vars
    /\ WF_vars(Elapse) /\ WF_vars(TickLive) /\ WF_vars(CompleteLive)

\* ------------------------------------------------------------------- claims
Newest(h) == h[1]

\* C1: History never holds more than 20 entries and is the 20 most recently
\* returned results, newest first; a step either leaves History alone or puts
\* one entry in front of it and drops only from the tail.
C1_HistoryInv ==
    /\ Len(history) <= HistoryCap
    /\ history = Take(completed, HistoryCap)
    /\ \A i, j \in 1..Len(history) : i < j => history[i].timestamp > history[j].timestamp
C1_HistoryStep ==
    \/ history' = history
    \/ Len(history') >= 1 /\ Tail(history') = Take(history, HistoryCap - 1)
C1_HistoryBounded == []C1_HistoryInv /\ [][C1_HistoryStep]_vars
C1_Witness ==
    /\ Len(completed) > HistoryCap
    /\ Len(history) = HistoryCap
    /\ lastEvent.kind = "complete" /\ lastEvent.ok

\* C2: a step in which a classification call fails changes neither the current
\* assessment nor History, nor anything else but the busy flag and the call
\* being gone.
C2_FailedStep == lastEvent'.kind = "complete" /\ ~lastEvent'.ok
C2_FailureIsNoOp ==
    [][C2_FailedStep =>
        /\ assessment' = assessment /\ history' = history
        /\ sensorData' = sensorData /\ autoSimulate' = autoSimulate
        /\ audioEnabled' = audioEnabled /\ intervalArmed' = intervalArmed
        /\ elapsed' = elapsed /\ ~isAnalyzing']_vars
C2_Witness ==
    /\ lastEvent.kind = "complete" /\ ~lastEvent.ok
    /\ lastEvent.resp.kind = "badText"
    /\ assessment # <<>> /\ history # <<>>

\* C3 as stated: when the classification call fails, the assess operation the
\* trigger or the tick invoked ends in a rejection.
C3_FailureRejects ==
    (lastEvent.kind = "complete" /\ ~lastEvent.ok) => lastEvent.settled = "rejected"
\* C3 amended: a transport error or unparseable text makes assessSafetyRisk
\* fail; handleAssessment logs the failure, clears the busy flag and completes
\* normally.
C3_FailureLoggedNotRejected ==
    (lastEvent.kind = "complete" /\ lastEvent.resp.kind \in {"transportError", "badText"}) =>
        /\ ~lastEvent.ok
        /\ lastEvent.logged
        /\ lastEvent.settled = "resolved"
        /\ ~isAnalyzing
C3_Witness ==
    /\ lastEvent.kind = "complete" /\ lastEvent.resp.kind = "transportError"
    /\ lastEvent.origin = "tick"

\* C4: the empty object and an empty response text give LOW with the fallback
\* explanation and no error; a reply missing only riskLevel keeps its
\* explanation, a reply missing only explanation keeps its riskLevel.
C4_DefaultOnMalformed ==
    lastEvent.kind = "complete" =>
        LET resp == lastEvent.resp IN
        /\ (resp = EmptyObject \/ resp.kind = "emptyText") =>
            /\ lastEvent.ok /\ lastEvent.settled = "resolved"
            /\ Newest(assessment).riskLevel = "LOW"
            /\ Newest(assessment).explanation = FallbackExplanation
        /\ (resp.kind = "object" /\ resp.riskLevel = Absent /\ resp.explanation = "clear") =>
            /\ lastEvent.ok
            /\ Newest(assessment).riskLevel = "LOW"
            /\ Newest(assessment).explanation = "clear"
        /\ (resp.kind = "object" /\ resp.explanation = Absent
                /\ resp.riskLevel \in {"LOW", "MEDIUM", "HIGH", "CRITICAL"}) =>
            /\ lastEvent.ok
            /\ Newest(assessment).riskLevel = resp.riskLevel
            /\ Newest(assessment).explanation = FallbackExplanation
C4_Witness ==
    /\ lastEvent.kind = "complete" /\ lastEvent.resp = EmptyObject
    /\ assessment # <<>> /\ Newest(assessment).riskLevel = "LOW"

\* C5: the current assessment and every entry of History have a riskLevel
\* among LOW, MEDIUM, HIGH.
C5_RiskLevelInEnum ==
    /\ \A i \in 1..Len(history) : history[i].riskLevel \in RiskLevel
    /\ assessment # <<>> => Newest(assessment).riskLevel \in RiskLevel

\* C6: right after a tick every channel of the reading lies within its
\* simulation bound.
InSimBounds(d) ==
    /\ DistanceMin <= d.leftDistance /\ d.leftDistance <= DistanceMax
    /\ DistanceMin <= d.rightDistance /\ d.rightDistance <= DistanceMax
    /\ ClosingSpeedMin <= d.closingSpeed /\ d.closingSpeed <= ClosingSpeedMax
    /\ VehicleSpeedMin <= d.vehicleSpeed /\ d.vehicleSpeed <= VehicleSpeedMax
C6_TickClamps == lastEvent.kind = "tick" => InSimBounds(sensorData)
\* a tick from distance 5, closing speed 25 and vehicle speed 120: each end
\* value is reached through its clamp only
C6_Witness ==
    /\ lastEvent.kind = "tick"
    /\ sensorData.leftDistance = DistanceMin
    /\ sensorData.closingSpeed = ClosingSpeedMax
    /\ sensorData.vehicleSpeed = VehicleSpeedMax

\* C7: whenever a classification call is outstanding the busy flag is set.
C7_BusyWhileOutstanding == Len(inflight) > 0 => isAnalyzing

C9_NoTickWhileIdle ==
    /\ [](~autoSimulate => ~intervalArmed)
    /\ [][~autoSimulate => lastEvent'.kind # "tick"]_vars
\* Idle again, right after a tick whose call is still outstanding
C9_Witness ==
    /\ ~autoSimulate /\ lastEvent.kind = "toggleAuto"
    /\ \E i \in 1..Len(inflight) : inflight[i].origin = "tick"

\* C10: whenever the driver is Running, a tick follows unless the driver is
\* stopped first.
C10_TickWhileRunning == [](autoSimulate => <>(~autoSimulate \/ lastEvent.kind = "tick"))

\* C11: when the call issued at mount for the initial reading returns
\* LOW / "clear" and no other call has returned a result, the current assessment
\* is that LOW result for the initial reading and History holds exactly it.
LowClear == Reply("object", "LOW", "clear")
C11_InitialAssessment ==
    (/\ lastEvent.kind = "complete" /\ lastEvent.origin = "initial"
     /\ lastEvent.resp = LowClear /\ Len(completed) = 1) =>
        /\ Len(history) = 1
        /\ assessment = history
        /\ Newest(history).riskLevel = "LOW"
        /\ Newest(history).explanation = "clear"
        /\ Newest(history).data = InitialSensorData
\* the initial call returned LOW and nothing else was ever issued
C11_Witness ==
    /\ lastEvent.kind = "complete" /\ lastEvent.origin = "initial"
    /\ lastEvent.resp = LowClear
    /\ inflight = <<>> /\ Len(completed) = 1 /\ sensorData = InitialSensorData
    /\ Len(history) = 1 /\ Newest(assessment).riskLevel = "LOW"

\* C12: a manual update stores the supplied value in the named field as it is,
\* and changes nothing else: not the other four fields, the assessment, History,
\* the busy flag, the driver or its timer, nor the calls in flight.
C12_EditStep ==
    lastEvent'.kind = "edit" =>
        /\ \E kv \in SliderInputs : sensorData' = [sensorData EXCEPT ![kv[1]] = kv[2]]
        /\ UNCHANGED <<assessment, history, isAnalyzing, autoSimulate, audioEnabled,
                       inflight, intervalArmed, elapsed, completed>>
C12_UpdateOnlyNamedField == [][C12_EditStep]_vars
\* an edit beyond the simulation's range, made while a call is outstanding and
\* the driver is Running
C12_Witness ==
    /\ lastEvent.kind = "edit"
    /\ sensorData.closingSpeed = SliderClosingMax
    /\ sensorData.leftDistance = SliderDistanceMin
    /\ isAnalyzing /\ autoSimulate

\* C13: with no classification call outstanding the busy flag is false, and
\* every completion, with a result or with a failure, leaves it false.
C13_IdleWhenNoneOutstanding ==
    /\ inflight = <<>> => ~isAnalyzing
    /\ lastEvent.kind = "complete" => ~isAnalyzing
\* the only outstanding call failed, and the flag was cleared all the same
C13_Witness ==
    /\ lastEvent.kind = "complete" /\ ~lastEvent.ok
    /\ inflight = <<>> /\ ~isAnalyzing

\* C14: a due tick of the armed timer is taken whatever the busy flag and the
\* number of calls outstanding, so a tick can add a call to one in flight.
C14_TickNotBlockedByBusy ==
    /\ (mounted /\ intervalArmed /\ elapsed >= IntervalMs) => ENABLED Tick(0, 0, 0, 0)
    /\ lastEvent.kind = "tick" =>
        /\ Len(inflight) > 0
        /\ inflight[Len(inflight)].origin = "tick"
        /\ isAnalyzing
\* a tick issued its call while an earlier call was still outstanding
C14_Witness ==
    /\ lastEvent.kind = "tick"
    /\ Len(inflight) >= 2
    /\ inflight[1].origin = "initial"

\* C15: after a call returns a result, that result is the current assessment
\* and the head of History, whatever the order of issue; History is in order of
\* completion, newest first.
C15_LastCompletedWins ==
    /\ (lastEvent.kind = "complete" /\ lastEvent.ok) =>
        /\ assessment = <<Newest(history)>>
        /\ Newest(history).data = lastEvent.data
        /\ Newest(history).timestamp = now
    /\ \A i, j \in 1..Len(history) : i < j => history[i].timestamp > history[j].timestamp
\* the call issued first, with the older reading, returned last
C15_Witness ==
    /\ lastEvent.kind = "complete" /\ lastEvent.ok /\ lastEvent.origin = "initial"
    /\ Len(history) = 2
    /\ Newest(assessment).data = InitialSensorData
    /\ history[2].data # InitialSensorData
    /\ sensorData = history[2].data

\* C16: toggling the driver leaves the calls in flight alone, and a call issued
\* by a tick that returns a result while the driver is Idle becomes the current
\* assessment and the head of History.
C16_ToggleStep == lastEvent'.kind = "toggleAuto" => inflight' = inflight
C16_IdleCompletion ==
    (/\ lastEvent.kind = "complete" /\ lastEvent.ok
     /\ lastEvent.origin = "tick" /\ ~autoSimulate) =>
        /\ Newest(assessment).data = lastEvent.data
        /\ Newest(history) = Newest(assessment)
C16_StopDoesNotCancel == []C16_IdleCompletion /\ [][C16_ToggleStep]_vars
\* a tick's call returned HIGH after the driver had been stopped
C16_Witness ==
    /\ ~autoSimulate /\ ~intervalArmed
    /\ lastEvent.kind = "complete" /\ lastEvent.ok /\ lastEvent.origin = "tick"
    /\ Newest(assessment).riskLevel = "HIGH"
    /\ Newest(history) = Newest(assessment)

\* C17: a tick keeps the driving mode, stores the new reading, issues one call
\* with exactly that reading, and leaves History and the assessment alone.
C17_TickStep ==
    lastEvent'.kind = "tick" =>
        /\ sensorData'.drivingMode = sensorData.drivingMode
        /\ \E d \in Deltas : sensorData' = Perturb(sensorData, d[1], d[2], d[3], d[4])
        /\ Len(inflight') = Len(inflight) + 1
        /\ SubSeq(inflight', 1, Len(inflight)) = inflight
        /\ inflight'[Len(inflight')].data = sensorData'
        /\ UNCHANGED <<history, assessment>>
C17_TickReplacesReading == [][C17_TickStep]_vars
\* a tick in Depot mode moved the reading and its call carries the new one
C17_Witness ==
    /\ lastEvent.kind = "tick"
    /\ sensorData.drivingMode = "Depot"
    /\ sensorData.leftDistance = SliderDistanceMin + 19
    /\ Len(inflight) = 1 /\ inflight[1].data = sensorData

\* C18: the manual trigger can be taken whenever the button is enabled, with
\* the driver Idle or Running, and its call carries the reading held then.
C18_ManualUsesHeldReading ==
    /\ (mounted /\ ~isAnalyzing) <=> ENABLED ManualTrigger
    /\ lastEvent.kind = "manual" =>
        /\ Len(inflight) > 0
        /\ inflight[Len(inflight)].origin = "manual"
        /\ inflight[Len(inflight)].data = sensorData
\* a manual trigger with an edited reading while the driver is Running
C18_Witness ==
    /\ lastEvent.kind = "manual" /\ autoSimulate /\ intervalArmed
    /\ sensorData.closingSpeed = SliderClosingMax
    /\ inflight[Len(inflight)].data = sensorData

\* C19: a result carries the reading its call was issued with, whatever the
\* reading held when it returns, and an entry of History is never altered.
C19_ResultReading ==
    (lastEvent.kind = "complete" /\ lastEvent.ok) =>
        /\ Newest(assessment).data = lastEvent.data
        /\ Newest(history).data = lastEvent.data
C19_EntriesKept ==
    \/ history' = history
    \/ /\ Len(history') > 0
       /\ \A i \in 2..Len(history') : history'[i] = history[i - 1]
C19_ReadingOfIssue == []C19_ResultReading /\ [][C19_EntriesKept]_vars
\* the reading was edited and then moved by a tick while the call was in flight
C19_Witness ==
    /\ lastEvent.kind = "complete" /\ lastEvent.ok /\ lastEvent.origin = "initial"
    /\ Newest(assessment).data = InitialSensorData
    /\ sensorData.closingSpeed = ClosingSpeedMax
    /\ \E i \in 1..Len(inflight) : inflight[i].data = sensorData

\* C20: a reply whose text parses to JSON null, an array, a number or a string
\* produces the LOW result with the fallback explanation, without a failure.
C20_NonObjectDefaults ==
    (lastEvent.kind = "complete"
        /\ lastEvent.resp.kind \in {"null", "array", "number", "string"}) =>
        /\ lastEvent.ok
        /\ Newest(assessment).riskLevel = "LOW"
        /\ Newest(assessment).explanation = FallbackExplanation

\* C21: the current assessment is absent exactly when History is empty, and
\* otherwise it is the first entry of History.
C21_AssessmentIsNewest ==
    /\ assessment = <<>> <=> history = <<>>
    /\ assessment # <<>> => assessment = <<Newest(history)>>
\* a failure after a result, with the reading edited meanwhile
C21_Witness ==
    /\ lastEvent.kind = "complete" /\ ~lastEvent.ok
    /\ Len(history) = 1
    /\ assessment = <<Newest(history)>>
    /\ sensorData # InitialSensorData

\* C22: right after a manual trigger, the call it issued is the only one in
\* flight.
C22_ManualNeverOverlaps ==
    lastEvent.kind = "manual" => Len(inflight) = 1

\* C23: the held reading is within the ranges of the sliders and the driving
\* mode is one of the three of the enumeration.
C23_ReadingInUiRanges ==
    /\ sensorData.leftDistance \in SliderDistanceMin..SliderDistanceMax
    /\ sensorData.rightDistance \in SliderDistanceMin..SliderDistanceMax
    /\ sensorData.closingSpeed \in 0..SliderClosingMax
    /\ sensorData.vehicleSpeed \in 0..SliderVehicleMax
    /\ sensorData.drivingMode \in DrivingMode
\* a tick with the lowest random terms, after edits to 5 cm, 25 m/s and 120 km/h
C23_Witness ==
    /\ lastEvent.kind = "tick"
    /\ sensorData.leftDistance = DistanceMin
    /\ sensorData.closingSpeed = ClosingSpeedMax
    /\ sensorData.vehicleSpeed = VehicleSpeedMax
    /\ sensorData.drivingMode = "Highway"

\* C24: a timer exists exactly while auto-simulate is on, and while the driver
\* stays Running an audio toggle, an edit or a completion leaves the timer and
\* the time it has run unchanged.
C24_TimerStep ==
    (autoSimulate /\ autoSimulate'
        /\ lastEvent'.kind \in {"toggleAudio", "edit", "complete"}) =>
        UNCHANGED <<intervalArmed, elapsed>>
C24_OnlyToggleRestartsTimer ==
    /\ [](mounted => (intervalArmed <=> autoSimulate))
    /\ [][C24_TimerStep]_vars

====
